---- MODULE Spec2Model ----
(***************************************************************************)
(* Model of MultigroupPhotonCrossSections (multigroup_cross_sections.py).  *)
(*                                                                         *)
(* The class is a set of pure numeric routines over IEEE-754 binary64      *)
(* values.  Because get_group_angle_transfer_matrix_element admits a term  *)
(* only when two independently computed floats are equal (chi == chi_m),   *)
(* the arithmetic is modelled bit-exactly: a float is a sign, a 53-bit     *)
(* significand held as a multi-limb natural, and a binary exponent, and    *)
(* every operation rounds to nearest, ties to even, as the hardware does.  *)
(***************************************************************************)
EXTENDS Integers, Sequences, FiniteSets, TLC

(***************************************************************************)
(* Multi-limb naturals: little-endian sequences of limbs in 0..Base-1     *)
(* with no high zero limb (zero is the empty sequence).                    *)
(***************************************************************************)
Base == 2^15

RECURSIVE Pow2(_)
Pow2(k) == IF k = 0 THEN 1 ELSE 2 * Pow2(k - 1)

RECURSIVE BNorm(_)
BNorm(a) ==
  IF a = <<>> THEN <<>>
  ELSE IF a[Len(a)] = 0 THEN BNorm(SubSeq(a, 1, Len(a) - 1))
  ELSE a

RECURSIVE BFromInt(_)
BFromInt(n) == IF n = 0 THEN <<>> ELSE <<n % Base>> \o BFromInt(n \div Base)

RECURSIVE BAddC(_, _, _)
BAddC(a, b, c) ==
  IF a = <<>> /\ b = <<>> THEN (IF c = 0 THEN <<>> ELSE <<c>>)
  ELSE LET x == IF a = <<>> THEN 0 ELSE Head(a)
           y == IF b = <<>> THEN 0 ELSE Head(b)
           s == x + y + c
       IN  <<s % Base>> \o BAddC(IF a = <<>> THEN <<>> ELSE Tail(a),
                                 IF b = <<>> THEN <<>> ELSE Tail(b),
                                 s \div Base)

BAdd(a, b) == BAddC(a, b, 0)

\* a - b for a >= b, before normalisation
RECURSIVE BSubC(_, _, _)
BSubC(a, b, c) ==
  IF a = <<>> THEN <<>>
  ELSE LET y == IF b = <<>> THEN 0 ELSE Head(b)
           d == Head(a) - y - c
       IN  <<IF d < 0 THEN d + Base ELSE d>>
             \o BSubC(Tail(a), IF b = <<>> THEN <<>> ELSE Tail(b),
                      IF d < 0 THEN 1 ELSE 0)

BSub(a, b) == BNorm(BSubC(a, b, 0))

\* -1, 0, 1 as a < b, a = b, a > b
RECURSIVE BCmpAt(_, _, _)
BCmpAt(a, b, i) ==
  IF i = 0 THEN 0
  ELSE IF a[i] < b[i] THEN -1
  ELSE IF a[i] > b[i] THEN 1
  ELSE BCmpAt(a, b, i - 1)

BCmp(a, b) ==
  IF Len(a) < Len(b) THEN -1
  ELSE IF Len(a) > Len(b) THEN 1
  ELSE BCmpAt(a, b, Len(a))

\* a * d + c for a single limb d
RECURSIVE BMulSmallC(_, _, _)
BMulSmallC(a, d, c) ==
  IF a = <<>> THEN (IF c = 0 THEN <<>> ELSE <<c>>)
  ELSE LET p == Head(a) * d + c
       IN  <<p % Base>> \o BMulSmallC(Tail(a), d, p \div Base)

BMulSmall(a, d) == IF d = 0 THEN <<>> ELSE BMulSmallC(a, d, 0)

RECURSIVE BMul(_, _)
BMul(a, b) ==
  IF a = <<>> \/ b = <<>> THEN <<>>
  ELSE LET rest == BMul(a, Tail(b))
       IN  BAdd(BMulSmall(a, Head(b)),
                IF rest = <<>> THEN <<>> ELSE <<0>> \o rest)

RECURSIVE BPow(_, _)
BPow(a, n) == IF n = 0 THEN <<1>> ELSE BMul(a, BPow(a, n - 1))

RECURSIVE BitLenSmall(_)
BitLenSmall(x) == IF x = 0 THEN 0 ELSE 1 + BitLenSmall(x \div 2)

BBitLen(a) ==
  IF a = <<>> THEN 0 ELSE 15 * (Len(a) - 1) + BitLenSmall(a[Len(a)])

RECURSIVE Zeros(_)
Zeros(n) == IF n = 0 THEN <<>> ELSE <<0>> \o Zeros(n - 1)

BShl(a, k) ==
  IF a = <<>> THEN <<>>
  ELSE Zeros(k \div 15) \o BMulSmall(a, Pow2(k % 15))

\* quotient of a by a single limb d, high limb first, remainder discarded
RECURSIVE BDivSmallAt(_, _, _, _)
BDivSmallAt(a, d, i, r) ==
  IF i = 0 THEN <<>>
  ELSE LET x == r * Base + a[i]
       IN  BDivSmallAt(a, d, i - 1, x % d) \o <<x \div d>>

BShr(a, k) ==
  LET drop == k \div 15
  IN  IF drop >= Len(a) THEN <<>>
      ELSE LET hi == SubSeq(a, drop + 1, Len(a))
           IN  BNorm(BDivSmallAt(hi, Pow2(k % 15), Len(hi), 0))

BBit(a, i) ==
  LET j == (i \div 15) + 1
  IN  IF j > Len(a) THEN 0 ELSE (a[j] \div Pow2(i % 15)) % 2

BIsOdd(a) == a # <<>> /\ a[1] % 2 = 1

\* Long division in base Base: <<quotient, remainder>> of n by d (d # 0).
\* d is first scaled so that its high limb is at least Base/2; a quotient
\* limb estimated from the two high limbs of the running remainder is then
\* at most two too large, and BDivFix lowers it until it fits.
RECURSIVE BDivFix(_, _, _)
BDivFix(r, d, qh) ==
  LET t == BMulSmall(d, qh)
  IN  IF BCmp(t, r) > 0 THEN BDivFix(r, d, qh - 1) ELSE <<qh, BSub(r, t)>>

RECURSIVE BDivLoop(_, _, _, _)
BDivLoop(n, d, i, qr) ==
  IF i = 0 THEN qr
  ELSE LET r1  == BNorm(<<n[i]>> \o qr[2])
           len == Len(d)
           top == (IF Len(r1) > len THEN r1[len + 1] ELSE 0) * Base + r1[len]
           est == top \div d[len]
           dr  == IF BCmp(r1, d) < 0 THEN <<0, r1>>
                  ELSE BDivFix(r1, d, IF est > Base - 1 THEN Base - 1 ELSE est)
       IN  BDivLoop(n, d, i - 1, <<(<<dr[1]>> \o qr[1]), dr[2]>>)

BDivMod(n, d) ==
  LET s  == 15 - BitLenSmall(d[Len(d)])
      nn == BShl(n, s)
      qr == BDivLoop(nn, BShl(d, s), Len(nn), <<(<<>>), (<<>>)>>)
  IN  <<BNorm(qr[1]), BShr(qr[2], s)>>

(***************************************************************************)
(* binary64 values: (-1)^s * m * 2^e with m = 0 or 2^52 <= m < 2^53.       *)
(* The values of this program stay far inside the normal range, so the     *)
(* exponent is unbounded here; infinities and NaN are outcomes of the      *)
(* calls that produce them, not values of this arithmetic.                 *)
(***************************************************************************)
FZero(s) == [s |-> s, m |-> <<>>, e |-> 0]

IsZero(x) == x.m = <<>>

\* Nearest binary64 to (-1)^s * (n + f) * 2^e, where 0 <= f < 1 and
\* sticky says f > 0 (then n has more than 54 bits); ties go to even.
RoundNat(s, n, e, sticky) ==
  LET L == BBitLen(n)
  IN  IF n = <<>> THEN FZero(s)
      ELSE IF L <= 53 THEN [s |-> s, m |-> BShl(n, 53 - L), e |-> e - (53 - L)]
      ELSE LET sh   == L - 53
               q    == BShr(n, sh)
               rem  == BSub(n, BShl(q, sh))
               c    == BCmp(rem, BShl(<<1>>, sh - 1))
               up   == c > 0 \/ (c = 0 /\ (sticky \/ BIsOdd(q)))
               q2   == IF up THEN BAdd(q, <<1>>) ELSE q
           IN  IF BBitLen(q2) = 54
               THEN [s |-> s, m |-> BShr(q2, 1), e |-> e + sh + 1]
               ELSE [s |-> s, m |-> q2, e |-> e + sh]

\* Nearest binary64 to (-1)^s * (n / d) * 2^e.
RoundRat(s, n, d, e) ==
  IF n = <<>> THEN FZero(s)
  ELSE LET k0 == 56 + BBitLen(d) - BBitLen(n)
           k  == IF k0 > 0 THEN k0 ELSE 0
           qr == BDivMod(BShl(n, k), d)
       IN  RoundNat(s, qr[1], e - k, qr[2] # <<>>)

Abs(n) == IF n < 0 THEN -n ELSE n

FromInt(n) == RoundNat(IF n < 0 THEN 1 ELSE 0, BFromInt(Abs(n)), 0, FALSE)

\* A decimal literal mant * 10^exp10, converted as the Python parser does
\* (correctly rounded).
Lit(mant, exp10) ==
  IF exp10 >= 0
  THEN RoundNat(IF mant < 0 THEN 1 ELSE 0,
                BMul(BFromInt(Abs(mant)), BPow(<<10>>, exp10)), 0, FALSE)
  ELSE RoundRat(IF mant < 0 THEN 1 ELSE 0,
                BFromInt(Abs(mant)), BPow(<<10>>, -exp10), 0)

FNeg(x) == [x EXCEPT !.s = 1 - x.s]

FMul(x, y) ==
  LET s == (x.s + y.s) % 2
  IN  IF IsZero(x) \/ IsZero(y) THEN FZero(s)
      ELSE RoundNat(s, BMul(x.m, y.m), x.e + y.e, FALSE)

\* x / y for y # 0
FDiv(x, y) ==
  LET s == (x.s + y.s) % 2
  IN  IF IsZero(x) THEN FZero(s)
      ELSE RoundRat(s, x.m, y.m, x.e - y.e)

FAdd(x, y) ==
  IF IsZero(x) /\ IsZero(y) THEN FZero(IF x.s = 1 /\ y.s = 1 THEN 1 ELSE 0)
  ELSE IF IsZero(x) THEN y
  ELSE IF IsZero(y) THEN x
  ELSE LET e  == IF x.e < y.e THEN x.e ELSE y.e
           a  == BShl(x.m, x.e - e)
           b  == BShl(y.m, y.e - e)
           c  == BCmp(a, b)
       IN  IF x.s = y.s THEN RoundNat(x.s, BAdd(a, b), e, FALSE)
           ELSE IF c = 0 THEN FZero(0)
           ELSE IF c > 0 THEN RoundNat(x.s, BSub(a, b), e, FALSE)
           ELSE RoundNat(y.s, BSub(b, a), e, FALSE)

FSub(x, y) == FAdd(x, FNeg(y))

\* x ** n for a small positive integer n: the correctly rounded power
FPow(x, n) ==
  IF IsZero(x) THEN FZero(0)
  ELSE RoundNat(IF n % 2 = 1 THEN x.s ELSE 0, BPow(x.m, n), n * x.e, FALSE)

\* -1, 0, 1 as x < y, x == y, x > y (0.0 == -0.0)
FCmp(x, y) ==
  IF IsZero(x) /\ IsZero(y) THEN 0
  ELSE IF IsZero(x) THEN (IF y.s = 1 THEN 1 ELSE -1)
  ELSE IF IsZero(y) THEN (IF x.s = 1 THEN -1 ELSE 1)
  ELSE IF x.s # y.s THEN (IF x.s = 1 THEN -1 ELSE 1)
  ELSE LET mag == IF x.e # y.e THEN (IF x.e < y.e THEN -1 ELSE 1)
                  ELSE BCmp(x.m, y.m)
       IN  IF x.s = 1 THEN -mag ELSE mag

FEq(x, y) == FCmp(x, y) = 0
FLe(x, y) == FCmp(x, y) <= 0
FGe(x, y) == FCmp(x, y) >= 0

One == FromInt(1)

(***************************************************************************)
(* Construction: __init__                                                  *)
(***************************************************************************)
electron_classical_radius_squared_barn == Lit(7939827, -8)
electron_rest_mass_keV == Lit(511006, -3)

Groups == 0..5
group_start == [g \in Groups |-> 150 - 25 * g]
group_stop == [g \in Groups |-> 125 - 25 * g]
\* the step tuple __init__ assigns: (-1,-1,-1,-1,-1,-1)
ConfiguredStep == [g \in Groups |-> 0 - 1]

Elements == {"H", "O", "Al"}
\* 'Z' and 'A' of element_data
element_Z == [el \in Elements |->
  IF el = "H" THEN 1 ELSE IF el = "O" THEN 8 ELSE 13]
element_A == [el \in Elements |->
  IF el = "H" THEN Lit(100794, 0 - 5)
  ELSE IF el = "O" THEN Lit(159994, 0 - 4)
  ELSE Lit(2698154, 0 - 5)]

\* photoelectric_cross_sections_fitting_parameters, one row per segment in
\* the order of the DataFrame: <<START, FINISH, A_1, A_2, A_3, A_4>>, every
\* number as <<mantissa, decimal exponent>> of its literal.
FitRows == [el \in Elements |->
  IF el = "H" THEN <<
    << <<1, -2>>,   <<14, -3>>, <<1000, -11>>, <<0, 0>>,      <<0, 0>>,     <<0, 0>> >>,
    << <<14, -3>>,  <<1, -1>>,  <<-6383, -2>>, <<-6446, -3>>, <<1317, -2>>, <<-5045, -5>> >>,
    << <<1, -1>>,   <<8, -1>>,  <<3051, -3>>,  <<-7818, -3>>, <<1144, -2>>, <<6959, -5>> >>,
    << <<8, -1>>,   <<4, 0>>,   <<7636, -5>>,  <<-9406, -4>>, <<6144, -3>>, <<1425, -3>> >>,
    << <<4, 0>>,    <<20, 0>>,  <<1180, -6>>,  <<-8236, -5>>, <<2886, -3>>, <<5534, -3>> >>,
    << <<20, 0>>,   <<100, 0>>, <<1620, -8>>,  <<-5610, -6>>, <<1214, -3>>, <<1761, -2>> >>,
    << <<100, 0>>,  <<500, 0>>, <<1034, -9>>,  <<-4114, -7>>, <<6287, -4>>, <<3927, -2>> >> >>
  ELSE IF el = "O" THEN <<
    << <<1, -2>>,   <<483, -4>>, <<1144, 1>>,   <<0, 0>>,      <<0, 0>>,     <<0, 0>> >>,
    << <<483, -4>>, <<532, -3>>, <<-2863, -1>>, <<4085, -1>>,  <<4436, -2>>, <<-1782, -3>> >>,
    << <<532, -3>>, <<4, 0>>,    <<-7181, -2>>, <<4748, -1>>,  <<5542, 0>>,  <<-1363, 0>> >>,
    << <<4, 0>>,    <<20, 0>>,   <<2745, -3>>,  <<-1747, -1>>, <<7159, 0>>,  <<-2213, 0>> >>,
    << <<20, 0>>,   <<100, 0>>,  <<3774, -5>>,  <<-1559, -2>>, <<4045, 0>>,  <<1810, 1>> >>,
    << <<100, 0>>,  <<500, 0>>,  <<3169, -6>>,  <<1473, -3>>,  <<7214, -1>>, <<4048, 2>> >> >>
  ELSE <<
    << <<1, -2>>,    <<159, -4>>,  <<-1654, 1>>,  <<1585, -1>>,  <<3907, -3>>,  <<-3383, -5>> >>,
    << <<159, -4>>,  <<73, -3>>,   <<1122, 0>>,   <<-4015, -2>>, <<6623, -4>>,  <<-2813, -6>> >>,
    << <<73, -3>>,   <<1177, -4>>, <<2390, 1>>,   <<-6953, -1>>, <<-7978, -2>>, <<1974, -3>> >>,
    << <<1177, -4>>, <<1560, -3>>, <<-5284, -1>>, <<1399, 0>>,   <<4360, -1>>,  <<-4747, -2>> >>,
    << <<1560, -3>>, <<20, 0>>,    <<-3674, -3>>, <<-1622, -2>>, <<2732, 1>>,   <<-1752, 1>> >>,
    << <<20, 0>>,    <<100, 0>>,   <<4158, -4>>,  <<-1351, -1>>, <<2716, 1>>,   <<3723, -1>> >>,
    << <<100, 0>>,   <<500, 0>>,   <<1125, -5>>,  <<2747, -3>>,  <<1174, 1>>,   <<5695, 2>> >> >>]

\* the DataFrame's float64 columns
photoelectric_cross_sections_fitting_parameters ==
  [el \in Elements |->
    [i \in 1..Len(FitRows[el]) |->
      [c \in 1..6 |-> Lit(FitRows[el][i][c][1], FitRows[el][i][c][2])]]]

(***************************************************************************)
(* How a call ends: a returned number, or a raised exception.  num tells   *)
(* a finite float64 (val) from a NaN and from a finite value whose digits  *)
(* are not computed here (np.log is outside the arithmetic modelled).      *)
(***************************************************************************)
NoOutcome == [kind |-> "none", num |-> "", val |-> FZero(0), exc |-> ""]
Returned(v) == [kind |-> "value", num |-> "finite", val |-> v, exc |-> ""]
ReturnedNaN == [kind |-> "value", num |-> "nan", val |-> FZero(0), exc |-> ""]
ReturnedLog == [kind |-> "value", num |-> "unevaluated", val |-> FZero(0), exc |-> ""]
Raised(x) == [kind |-> "error", num |-> "", val |-> FZero(0), exc |-> x]

(***************************************************************************)
(* get_mass_absorption_coefficient_element                                 *)
(***************************************************************************)
\* MatchingRows with the upper end of a segment excluded
MatchingRowsHalfOpen(el, E) ==
  LET df == photoelectric_cross_sections_fitting_parameters[el]
  IN  SelectSeq([i \in 1..Len(df) |-> i],
                LAMBDA i : FLe(df[i][1], E) /\ FCmp(df[i][2], E) > 0)

\* the row numbers of df[(df['START']<=E) & (df['FINISH']>=E)], in the
\* order of the DataFrame
MatchingRows(el, E) ==
  LET df == photoelectric_cross_sections_fitting_parameters[el]
  IN  SelectSeq([i \in 1..Len(df) |-> i],
                LAMBDA i : FLe(df[i][1], E) /\ FGe(df[i][2], E))

\* FirstValue taking the last row that passed instead of the first
FirstValueOfLastRow(el, rows, k) ==
  photoelectric_cross_sections_fitting_parameters[el][rows[Len(rows)]][2 + k]

\* [...]['A_k'].values[0]: the entry of the first row that passed
FirstValue(el, rows, k) ==
  photoelectric_cross_sections_fitting_parameters[el][rows[1]][2 + k]

\* line 75: A_1/E + A_2/E**2 + A_3/E**3 + A_4/E**4
FitValue(A, E) ==
  FAdd(FAdd(FAdd(FDiv(A[1], E), FDiv(A[2], FPow(E, 2))),
            FDiv(A[3], FPow(E, 3))),
       FDiv(A[4], FPow(E, 4)))

\* the locals A_1..A_4 once lines 71-74 have run; <<>> when line 70 or 71
\* raises
AbsorptionLocals(el, E) ==
  IF el \notin Elements THEN <<>>
  ELSE LET rows == MatchingRows(el, E)
       IN  IF rows = <<>> THEN <<>>
           ELSE [k \in 1..4 |-> FirstValue(el, rows, k)]

get_mass_absorption_coefficient_element(el, E) ==
  IF el \notin Elements THEN Raised("KeyError")
  ELSE IF MatchingRows(el, E) = <<>> THEN Raised("IndexError")
  ELSE Returned(FitValue(AbsorptionLocals(el, E), E))

(***************************************************************************)
(* get_mass_scattering_coefficient_element                                 *)
(***************************************************************************)
L == Lit(40061, 0 - 5)

\* X = E/511.04
ReducedEnergy(E) == FDiv(E, Lit(51104, 0 - 2))

\* R = L*(1.+1.148*X+0.06141*X**2)/(1.+3.171*X+0.9328*X**2+0.02572*X**3)
ScatteringR(X) ==
  FDiv(FMul(L, FAdd(FAdd(One, FMul(Lit(1148, 0 - 3), X)),
                    FMul(Lit(6141, 0 - 5), FPow(X, 2)))),
       FAdd(FAdd(FAdd(One, FMul(Lit(3171, 0 - 3), X)),
                 FMul(Lit(9328, 0 - 4), FPow(X, 2))),
            FMul(Lit(2572, 0 - 5), FPow(X, 3))))

get_mass_scattering_coefficient_element(el, E) ==
  IF el \notin Elements THEN Raised("KeyError")
  ELSE Returned(FMul(ScatteringR(ReducedEnergy(E)),
                     FDiv(FromInt(element_Z[el]), element_A[el])))

(***************************************************************************)
(* get_KN_mass_scattering_coefficient_element.  E is a Python float or a   *)
(* numpy float64: a Python float division by zero raises, a float64 one    *)
(* gives inf (with a warning), and inf*log(1.) is NaN.                     *)
(***************************************************************************)
get_KN_mass_scattering_coefficient_element(el, E, type) ==
  LET X == ReducedEnergy(E)
      d == FAdd(One, FMul(FromInt(2), X))   \* 1.+2*X, the divisor of omega
  IN  IF el \notin Elements THEN Raised("KeyError")
      ELSE IF IsZero(d)
           THEN (IF type = "float" THEN Raised("ZeroDivisionError") ELSE ReturnedNaN)
      ELSE IF IsZero(FMul(FromInt(2), FPow(X, 3)))   \* 2.*X**3
           THEN (IF type = "float" THEN Raised("ZeroDivisionError") ELSE ReturnedNaN)
      ELSE IF d.s = 1 THEN ReturnedNaN               \* np.log of a negative omega
      ELSE ReturnedLog

(***************************************************************************)
(* get_mass_attenuation_coefficient_element                                *)
(***************************************************************************)
\* the attenuation coefficient taking the Klein-Nishina scattering
attenuation_with_KN_scattering(el, E) ==
  LET mass_absorption_coefficient == get_mass_absorption_coefficient_element(el, E)
      mass_scattering_coefficient ==
        get_KN_mass_scattering_coefficient_element(el, E, "float")
  IN  IF mass_absorption_coefficient.kind = "error" THEN mass_absorption_coefficient
      ELSE IF mass_scattering_coefficient.kind = "error" THEN mass_scattering_coefficient
      ELSE IF mass_scattering_coefficient.num # "finite" THEN mass_scattering_coefficient
      ELSE Returned(FAdd(mass_absorption_coefficient.val,
                         mass_scattering_coefficient.val))

get_mass_attenuation_coefficient_element(el, E) ==
  LET mass_absorption_coefficient == get_mass_absorption_coefficient_element(el, E)
      mass_scattering_coefficient == get_mass_scattering_coefficient_element(el, E)
  IN  IF mass_absorption_coefficient.kind = "error" THEN mass_absorption_coefficient
      ELSE IF mass_scattering_coefficient.kind = "error" THEN mass_scattering_coefficient
      ELSE Returned(FAdd(mass_absorption_coefficient.val,
                         mass_scattering_coefficient.val))

(***************************************************************************)
(* get_group_angle_transfer_matrix_element                                 *)
(***************************************************************************)
\* ArangeLen of a range that includes its stop
ArangeLenInclusive(start, stop, step) ==
  LET d == stop - start
      q == IF step > 0 THEN d \div step + 1 ELSE (0 - d) \div (0 - step) + 1
  IN  IF q > 0 THEN q ELSE 0

\* number of elements of np.arange(start, stop, step) for integers, step # 0:
\* ceil((stop - start) / step), and none when that is not positive
ArangeLen(start, stop, step) ==
  LET d == stop - start
      q == IF step > 0 THEN (d + step - 1) \div step
           ELSE ((0 - d) + (0 - step) - 1) \div (0 - step)
  IN  IF q > 0 THEN q ELSE 0

\* element k (from 0) of np.arange(start, stop, step)
ArangeAt(start, step, k) == start + k * step

\* np.dot of two 3-vectors
Dot(a, b) == FAdd(FAdd(FMul(a[1], b[1]), FMul(a[2], b[2])), FMul(a[3], b[3]))

\* lambda = electron_rest_mass_keV / E
LambdaOf(E) == FDiv(electron_rest_mass_keV, FromInt(E))

\* E_min = E_in / (1. + 2. / lambda_in)
EMinOf(E_in, lambda_in) ==
  FDiv(FromInt(E_in), FAdd(One, FDiv(FromInt(2), lambda_in)))

\* The two quotients depend on the energy alone and are tabulated over the
\* energies the groups span.
GridEnergies == 1..group_start[0]
lambda_tab == [E \in GridEnergies |-> LambdaOf(E)]
E_min_tab == [E \in GridEnergies |-> EMinOf(E, lambda_tab[E])]

\* (E_out <= E_max) & (E_out >= E_min), with E_max = E_in
Admissible(E_in, E_out) ==
  E_out <= E_in /\ FGe(FromInt(E_out), E_min_tab[E_in])

\* chi = 1. + lambda_in - lambda_out
ChiOf(E_in, E_out) == FSub(FAdd(One, lambda_tab[E_in]), lambda_tab[E_out])

\* E_in/E_out + E_out/E_in - 1. + chi**2
Kernel(E_in, E_out, c) ==
  FAdd(FSub(FAdd(FDiv(FromInt(E_in), FromInt(E_out)),
                 FDiv(FromInt(E_out), FromInt(E_in))),
            One),
       FPow(c, 2))

\* group_in_step / (E_in**2 * (group_in_start - group_in_stop))
Weight(step, E_in, start, stop) ==
  FDiv(FromInt(step), FromInt(E_in * E_in * (start - stop)))

\* Accumulate with the product replaced by a sum
AccumulateSum(acc, weight, inner) == FAdd(acc, FAdd(weight, inner))

\* line 152: integral_in += weight * integral_out
Accumulate(acc, weight, inner) == FAdd(acc, FMul(weight, inner))

\* 0.5 * electron_classical_radius_squared_barn * electron_rest_mass_keV * integral_in
Scale(integral) ==
  FMul(FMul(FMul(Lit(5, -1), electron_classical_radius_squared_barn),
            electron_rest_mass_keV),
       integral)

(***************************************************************************)
(* State: one call at a time.  pc is the position of the call in progress, *)
(* the other variables are the instance field group_step, the arguments    *)
(* and locals of the call, what it has printed and how it ended.           *)
(***************************************************************************)
VARIABLES
  pc,            \* "idle", "outer" (line 135), "inner" (line 139),
                 \* "admit" (lines 146-151), "done"
  group_step,    \* self.group_step
  group_in,      \* argument
  group_out,     \* argument
  direction_in,  \* argument
  direction_out, \* argument
  chi_m,         \* line 126
  n_in, k_in,    \* the array of line 135: its length, the next position
  n_out, k_out,  \* the array of line 139: its length, the next position
  integral_in,   \* line 134
  integral_out,  \* line 138
  chi,           \* line 148: <<>> until first assigned
  console,       \* number of lines printed by the call
  call,          \* the routine called and its arguments
  A,             \* lines 71-74: the locals A_1..A_4, <<>> until assigned
  outcome        \* how the call ended

vars == <<pc, group_step, group_in, group_out, direction_in, direction_out, chi_m, n_in, k_in, n_out, k_out,
          integral_in, integral_out, chi, console, call, A, outcome>>

transfer_locals == <<group_in, group_out, direction_in, direction_out, chi_m, n_in, k_in, n_out, k_out,
                     integral_in, integral_out, chi, console>>

NoCall == [fn |-> "", element |-> "", E |-> 0, type |-> ""]
TransferCall == [fn |-> "get_group_angle_transfer_matrix_element",
                 element |-> "", E |-> 0, type |-> ""]

\* Direction vectors a caller passes.  The routine does not validate them.
\* NearForward has the x component 1 + 2^-51; Oblique has the x component
\* 0x1.f44b32129263cp-1 (about 0.97714).
Forward == <<One, FZero(0), FZero(0)>>
Sideways == <<FZero(0), One, FZero(0)>>
NearForward == <<[s |-> 0, m |-> <<2, 0, 0, 128>>, e |-> 0 - 52], FZero(0), FZero(0)>>
Oblique == <<[s |-> 0, m |-> <<9788, 16978, 4812, 250>>, e |-> 0 - 53], FZero(0), FZero(0)>>
DirectionsIn == {Forward, Sideways, NearForward, Oblique}
DirectionsOut == {Forward}

E_in == ArangeAt(group_start[group_in], group_step[group_in], k_in)
E_out == ArangeAt(group_start[group_out], group_step[group_out], k_out)

\* the instance after construction with group_step as given, no call made
InitWith(step) ==
  /\ pc = "idle"
  /\ group_step = step
  /\ group_in = 0
  /\ group_out = 0
  /\ direction_in = <<>>
  /\ direction_out = <<>>
  /\ chi_m = FZero(0)
  /\ n_in = 0
  /\ k_in = 0
  /\ n_out = 0
  /\ k_out = 0
  /\ integral_in = FZero(0)
  /\ integral_out = FZero(0)
  /\ chi = <<>>
  /\ console = 0
  /\ call = NoCall
  /\ A = <<>>
  /\ outcome = NoOutcome

Init == InitWith(ConfiguredStep)

\* lines 125-135: the call, up to the creation of the E_in array
Call(gi, go, di, do) ==
  /\ pc = "idle"
  /\ group_step[gi] # 0
  /\ group_in' = gi
  /\ group_out' = go
  /\ direction_in' = di
  /\ direction_out' = do
  /\ chi_m' = Dot(di, do)
  /\ integral_in' = FZero(0)
  /\ n_in' = ArangeLen(group_start[gi], group_stop[gi], group_step[gi])
  /\ k_in' = 0
  /\ pc' = "outer"
  /\ call' = TransferCall
  /\ UNCHANGED <<group_step, n_out, k_out, integral_out, chi, console, A, outcome>>

\* lines 135-139: the next E_in, lambda_in, integral_out = 0. and the
\* creation of the E_out array
OuterBegin ==
  /\ pc = "outer"
  /\ k_in < n_in
  /\ group_step[group_out] # 0
  /\ integral_out' = FZero(0)
  /\ n_out' = ArangeLen(group_start[group_out], group_stop[group_out],
                        group_step[group_out])
  /\ k_out' = 0
  /\ pc' = "inner"
  /\ UNCHANGED <<group_step, group_in, group_out, direction_in, direction_out,
                 chi_m, n_in, k_in,
                 integral_in, chi, console, call, A, outcome>>

\* lines 139-145: the next E_out and the admissibility test
InnerTest ==
  /\ pc = "inner"
  /\ k_out < n_out
  /\ IF Admissible(E_in, E_out)
     THEN pc' = "admit" /\ k_out' = k_out
     ELSE pc' = "inner" /\ k_out' = k_out + 1
  /\ UNCHANGED <<group_step, group_in, group_out, direction_in, direction_out,
                 chi_m, n_in, k_in, n_out,
                 integral_in, integral_out, chi, console, call, A, outcome>>

\* lines 146-151: the two prints, chi, and the term when chi == chi_m
Admit ==
  /\ pc = "admit"
  /\ console' = console + 2
  /\ LET c == ChiOf(E_in, E_out)
     IN  /\ chi' = <<c>>
         /\ integral_out' = IF FEq(c, chi_m)
                            THEN FAdd(integral_out, Kernel(E_in, E_out, c))
                            ELSE integral_out
  /\ k_out' = k_out + 1
  /\ pc' = "inner"
  /\ UNCHANGED <<group_step, group_in, group_out, direction_in, direction_out,
                 chi_m, n_in, k_in, n_out,
                 integral_in, call, A, outcome>>

\* line 152, after the last E_out
OuterEnd ==
  /\ pc = "inner"
  /\ k_out = n_out
  /\ integral_in' =
       Accumulate(integral_in,
                  Weight(group_step[group_in], E_in, group_start[group_in],
                         group_stop[group_in]),
                  integral_out)
  /\ k_in' = k_in + 1
  /\ pc' = "outer"
  /\ UNCHANGED <<group_step, group_in, group_out, direction_in, direction_out,
                 chi_m, n_in, n_out, k_out,
                 integral_out, chi, console, call, A, outcome>>

\* lines 153-154, after the last E_in
Return ==
  /\ pc = "outer"
  /\ k_in = n_in
  /\ outcome' = Returned(Scale(integral_in))
  /\ pc' = "done"
  /\ UNCHANGED <<group_step, group_in, group_out, direction_in, direction_out,
                 chi_m, n_in, k_in, n_out,
                 k_out, integral_in, integral_out, chi, console, call, A>>

Next ==
  \/ \E gi \in Groups, go \in Groups, di \in DirectionsIn, do \in DirectionsOut :
       Call(gi, go, di, do)
  \/ OuterBegin
  \/ InnerTest
  \/ Admit
  \/ OuterEnd
  \/ Return

Spec == Init /\ [][Next]_vars

(***************************************************************************)
(* The same routine on an instance whose group_step a caller has           *)
(* reassigned (it is a plain attribute).  np.arange raises                 *)
(* ZeroDivisionError for a zero step; that is the only check on the step.  *)
(***************************************************************************)
StepChoices == {0 - 25, 0 - 5, 0, 1}

\* the groups of even index step by a, the others by b
StepConfigs ==
  {[g \in Groups |-> IF g % 2 = 0 THEN a ELSE b] : a \in StepChoices, b \in StepChoices}

InitStep == \E step \in StepConfigs : InitWith(step)

\* line 135 with group_step[group_in] = 0
CallRaises(gi, go, di, do) ==
  /\ pc = "idle"
  /\ group_step[gi] = 0
  /\ group_in' = gi
  /\ group_out' = go
  /\ direction_in' = di
  /\ direction_out' = do
  /\ chi_m' = Dot(di, do)
  /\ integral_in' = FZero(0)
  /\ call' = TransferCall
  /\ outcome' = Raised("ZeroDivisionError")
  /\ pc' = "done"
  /\ UNCHANGED <<group_step, n_in, k_in, n_out, k_out, integral_out, chi,
                 console, A>>

\* line 139 with group_step[group_out] = 0
OuterBeginRaises ==
  /\ pc = "outer"
  /\ k_in < n_in
  /\ group_step[group_out] = 0
  /\ integral_out' = FZero(0)
  /\ outcome' = Raised("ZeroDivisionError")
  /\ pc' = "done"
  /\ UNCHANGED <<group_step, group_in, group_out, direction_in, direction_out,
                 chi_m, n_in, k_in, n_out, k_out, integral_in, chi, console,
                 call, A>>

NextStep ==
  \/ \E gi \in Groups, go \in Groups, di \in DirectionsIn, do \in DirectionsOut :
       Call(gi, go, di, do)
  \/ \E gi \in Groups, go \in Groups, di \in DirectionsIn, do \in DirectionsOut :
       CallRaises(gi, go, di, do)
  \/ OuterBegin
  \/ OuterBeginRaises
  \/ InnerTest
  \/ Admit
  \/ OuterEnd
  \/ Return

SpecStep == InitStep /\ [][NextStep]_vars

(***************************************************************************)
(* The cross-section routines.  Each is a pure function of its arguments   *)
(* and runs in one step.  A caller passes an element symbol and an energy; *)
(* the energies tried are the decimal numbers n * 10^-4 keV within EDelta  *)
(* steps of a segment boundary or of zero.                                 *)
(***************************************************************************)
EDelta == 1

Symbols == Elements \cup {"Fe"}

\* a table entry <<mantissa, decimal exponent>> in units of 10^-4
Units(lit) == lit[1] * 10^(lit[2] + 4)

Boundaries ==
  UNION {UNION {{Units(FitRows[el][i][1]), Units(FitRows[el][i][2])} :
                  i \in 1..Len(FitRows[el])} : el \in Elements}

EnergyPoints == UNION {(b - EDelta)..(b + EDelta) : b \in Boundaries \cup {0}}

EnergyOf(n) == Lit(n, 0 - 4)

FloatTypes == {"float", "float64"}

Finish(fn, el, n, type, locals, out) ==
  /\ pc = "idle"
  /\ call' = [fn |-> fn, element |-> el, E |-> n, type |-> type]
  /\ A' = locals
  /\ outcome' = out
  /\ pc' = "done"
  /\ UNCHANGED <<group_step, transfer_locals>>

CallAbsorption(el, n, type) ==
  Finish("get_mass_absorption_coefficient_element", el, n, type,
         AbsorptionLocals(el, EnergyOf(n)),
         get_mass_absorption_coefficient_element(el, EnergyOf(n)))

CallScattering(el, n, type) ==
  Finish("get_mass_scattering_coefficient_element", el, n, type, <<>>,
         get_mass_scattering_coefficient_element(el, EnergyOf(n)))

CallKN(el, n, type) ==
  Finish("get_KN_mass_scattering_coefficient_element", el, n, type, <<>>,
         get_KN_mass_scattering_coefficient_element(el, EnergyOf(n), type))

CallAttenuation(el, n, type) ==
  Finish("get_mass_attenuation_coefficient_element", el, n, type,
         AbsorptionLocals(el, EnergyOf(n)),
         get_mass_attenuation_coefficient_element(el, EnergyOf(n)))

NextXS ==
  \E el \in Symbols, n \in EnergyPoints, type \in FloatTypes :
    \/ CallAbsorption(el, n, type)
    \/ CallScattering(el, n, type)
    \/ CallKN(el, n, type)
    \/ CallAttenuation(el, n, type)

SpecXS == Init /\ [][NextXS]_vars

(***************************************************************************)
(* Properties                                                              *)
(***************************************************************************)
TransferDone == pc = "done" /\ call.fn = "get_group_angle_transfer_matrix_element"

EvaluatorDone(fns) ==
  pc = "done" /\ call.fn \in fns /\ call.element \in Elements

\* C1: called with direction_in equal to direction_out (chi_m = 1) and
\* group_in = group_out, the routine returns a value >= 0, for each of the
\* six groups.
C1_SameGroupForwardIsNonNegative ==
  (TransferDone /\ group_in = group_out /\ direction_in = direction_out)
    => (outcome.kind = "value" /\ FGe(outcome.val, FZero(0)))

\* segment i of el finishes at n * 10^-4 keV, where segment i+1 starts
SharedBoundary(el, n, i) ==
  /\ i < Len(FitRows[el])
  /\ Units(FitRows[el][i][2]) = n
  /\ Units(FitRows[el][i + 1][1]) = n

\* A_1..A_4 of segment i
Coefficients(el, i) ==
  [k \in 1..4 |-> photoelectric_cross_sections_fitting_parameters[el][i][2 + k]]

\* C2 as stated: at an energy on the boundary shared by segments i and i+1
\* the fit is evaluated with the coefficients of segment i+1, whose START
\* is E.
C2_BoundaryUsesHigherSegment ==
  EvaluatorDone({"get_mass_absorption_coefficient_element"}) =>
    \A i \in 1..Len(FitRows[call.element]) :
      SharedBoundary(call.element, call.E, i) =>
        /\ A = Coefficients(call.element, i + 1)
        /\ outcome = Returned(FitValue(Coefficients(call.element, i + 1),
                                       EnergyOf(call.E)))

\* C2 amended: at an energy on the boundary shared by segments i and i+1
\* the fit is evaluated with the coefficients of segment i, whose FINISH
\* is E (the first row of the table that contains E).
C2_BoundaryUsesLowerSegment ==
  EvaluatorDone({"get_mass_absorption_coefficient_element"}) =>
    \A i \in 1..Len(FitRows[call.element]) :
      SharedBoundary(call.element, call.E, i) =>
        /\ A = Coefficients(call.element, i)
        /\ outcome = Returned(FitValue(Coefficients(call.element, i),
                                       EnergyOf(call.E)))

C2_Witness ==
  /\ EvaluatorDone({"get_mass_absorption_coefficient_element"})
  /\ call.element = "Al"
  /\ SharedBoundary("Al", call.E, 3)
  /\ outcome.kind = "value"

\* C3: for H, O and Al, an energy below 0.01 keV or above 500 keV makes
\* the absorption and the attenuation routine end in an error and return
\* no number; an energy in [0.01, 500] matches a segment and a number is
\* returned.  (Energies are held in units of 10^-4 keV.)
C3_DomainDecidesOutcome ==
  EvaluatorDone({"get_mass_absorption_coefficient_element",
                 "get_mass_attenuation_coefficient_element"}) =>
    IF call.E < 100 \/ call.E > 5000000
    THEN outcome.kind = "error"
    ELSE /\ outcome.kind = "value"
         /\ outcome.num = "finite"
         /\ A # <<>>

C3_Witness ==
  /\ EvaluatorDone({"get_mass_attenuation_coefficient_element"})
  /\ call.E > 5000000
  /\ outcome.kind = "error"

\* E_in / (1 + 2 E_in / m_e) <= E_out <= E_in in exact arithmetic, with
\* m_e = 511.006
Kinematic(Ein, Eout) ==
  Eout <= Ein /\ Eout * (511006 + 2000 * Ein) >= 511006 * Ein

Grid(g) == (group_stop[g] + 1)..group_start[g]

NoOverlap(gi, go) ==
  \A Ein \in Grid(gi), Eout \in Grid(go) : ~Kinematic(Ein, Eout)

\* C4: the routine returns exactly 0, whatever the directions, when no
\* grid pair of the two groups is kinematically admissible; that is so
\* for every group_out of higher energy than group_in and for group_in = 0,
\* group_out = 5.
C4_NoOverlapGivesZero ==
  TransferDone =>
    /\ NoOverlap(group_in, group_out) => outcome = Returned(FZero(0))
    /\ group_out < group_in => NoOverlap(group_in, group_out)
    /\ (group_in = 0 /\ group_out = 5) => NoOverlap(group_in, group_out)

C4_Witness ==
  /\ TransferDone
  /\ group_in = 0
  /\ group_out = 5
  /\ direction_in = Forward
  /\ outcome = Returned(FZero(0))

\* C5: the attenuation coefficient is the absorption coefficient plus the
\* non-relativistic scattering coefficient (not the Klein-Nishina one)
\* whenever both are returned, and the routine fails exactly when one of
\* the two fails.
C5_AttenuationIsSum ==
  (pc = "done" /\ call.fn = "get_mass_attenuation_coefficient_element") =>
    LET E  == EnergyOf(call.E)
        ab == get_mass_absorption_coefficient_element(call.element, E)
        sc == get_mass_scattering_coefficient_element(call.element, E)
    IN  /\ (ab.kind = "value" /\ sc.kind = "value")
             => outcome = Returned(FAdd(ab.val, sc.val))
        /\ outcome.kind = "error" <=> (ab.kind = "error" \/ sc.kind = "error")

C5_Witness ==
  /\ EvaluatorDone({"get_mass_attenuation_coefficient_element"})
  /\ call.E = 1000000
  /\ outcome.kind = "value"
  /\ ~IsZero(outcome.val)

\* a step that is zero, positive, or not smaller in magnitude than the span
InvalidStep(g) ==
  group_step[g] >= 0 \/ 0 - group_step[g] >= group_start[g] - group_stop[g]

\* C6: with an invalid step for group_in or group_out the routine fails
\* and returns no value.
C6_InvalidStepFails ==
  (TransferDone /\ (InvalidStep(group_in) \/ InvalidStep(group_out)))
    => outcome.kind = "error"

\* C7: the absorption routine with E <= 0 and the Klein-Nishina routine
\* with E = 0 end in an error and return no number, for every known
\* element.
C7_InvalidEnergyFails ==
  /\ (EvaluatorDone({"get_mass_absorption_coefficient_element"}) /\ call.E <= 0)
       => outcome.kind = "error"
  /\ (EvaluatorDone({"get_KN_mass_scattering_coefficient_element"}) /\ call.E = 0)
       => outcome.kind = "error"

\* C8: a call can be made that prints nothing, also when some pair passes
\* the admissibility test.  The routine takes no argument and reads no
\* field that could switch the printing off, so every call is such a call.
C8_CallPrintsNothing == TransferDone => console = 0

\* the number of values a loop over group g visits
LoopCount(g) == (group_start[g] - group_stop[g]) \div Abs(ConfiguredStep[g])

C9_Counts ==
  call.fn = "get_group_angle_transfer_matrix_element" =>
    /\ LoopCount(group_in) = 25 /\ LoopCount(group_out) = 25
    /\ n_in = LoopCount(group_in)
    /\ pc \in {"inner", "admit"} =>
         /\ n_out = LoopCount(group_out)
         /\ k_in < n_in /\ k_out <= n_out
         /\ E_in \in Grid(group_in) /\ E_in > 0
    /\ (pc = "admit" \/ (pc = "inner" /\ k_out < n_out)) =>
         E_out \in Grid(group_out) /\ E_out > 0
    /\ (pc = "outer" /\ k_in > 0) => k_out = LoopCount(group_out)
    /\ pc = "done" => k_in = LoopCount(group_in)

\* position of the call in its nested loops, growing with every step
Measure ==
  LET W == 2 * LoopCount(group_out) + 3
  IN  k_in * W + (IF pc = "outer" THEN 0
                  ELSE IF pc = "inner" THEN 1 + 2 * k_out
                  ELSE IF pc = "admit" THEN 2 + 2 * k_out
                  ELSE W)

\* a step of a call in progress moves it on
Advances == pc \in {"outer", "inner", "admit"} => (Measure' > Measure)

\* C9: for all groups the loops visit exactly 25 values of E_in and, for
\* each, 25 values of E_out, from the group's start downwards and without
\* its stop; every visited energy is positive, so no division is by zero;
\* and every step advances the loops, so the call terminates.
C9_LoopsVisit25AndTerminate ==
  /\ []C9_Counts
  /\ [][Advances]_vars

C9_Witness ==
  /\ TransferDone
  /\ group_in = 5
  /\ group_out = 5
  /\ k_in = 25
  /\ k_out = 25

\* C10: every pair that passes the admissibility test yields a chi in
\* [-1, 1], and the result is 0 for every chi_m outside [-1, 1].
C10_ChiIsACosine ==
  /\ chi # <<>> => (FGe(chi[1], FNeg(One)) /\ FLe(chi[1], One))
  /\ (TransferDone /\ ~(FGe(chi_m, FNeg(One)) /\ FLe(chi_m, One)))
       => outcome = Returned(FZero(0))
====
